---- MODULE Spec2Model ----
(***************************************************************************)
(* A model of foswind.py, the static website generator: the classification *)
(* of HTML dependencies, their resolution against the search paths, the   *)
(* asset makefile, the make run, the file enumeration and the stale file   *)
(* removal, and the main pipeline that chains them.                        *)
(*                                                                         *)
(* Strings are sequences of one-character strings, so that the prefix,     *)
(* suffix and separator tests of the code are computed and not assumed.    *)
(* The file system is a function from nodes (absolute, symlink-free        *)
(* component lists) to entries; every path string the program uses is      *)
(* resolved against it the way the kernel resolves it.                     *)
(***************************************************************************)
EXTENDS Integers, Sequences, FiniteSets, TLC

(***************************************************************************)
(* Strings                                                                 *)
(***************************************************************************)
Min(S) == CHOOSE x \in S : \A y \in S : x <= y

\* str.startswith
StartsWith(s, p) == Len(s) >= Len(p) /\ SubSeq(s, 1, Len(p)) = p

\* str.endswith
EndsWith(s, p) == Len(s) >= Len(p) /\ SubSeq(s, Len(s) - Len(p) + 1, Len(s)) = p

UpperCase ==
    <<"A", "B", "C", "D", "E", "F", "G", "H", "I", "J", "K", "L", "M",
      "N", "O", "P", "Q", "R", "S", "T", "U", "V", "W", "X", "Y", "Z">>
LowerCase ==
    <<"a", "b", "c", "d", "e", "f", "g", "h", "i", "j", "k", "l", "m",
      "n", "o", "p", "q", "r", "s", "t", "u", "v", "w", "x", "y", "z">>

\* str.lower on one character
LowerChar(c) ==
    IF \E i \in 1..Len(UpperCase) : UpperCase[i] = c
    THEN LowerCase[CHOOSE i \in 1..Len(UpperCase) : UpperCase[i] = c]
    ELSE c

\* str.lower
Lower(s) == [i \in 1..Len(s) |-> LowerChar(s[i])]

\* dependency.split("#")[0]: everything before the first "#"
SplitHash(s) ==
    LET idx == {i \in 1..Len(s) : s[i] = "#"}
    IN  IF idx = {} THEN s ELSE SubSeq(s, 1, Min(idx) - 1)

\* the pieces of s between "/" characters, the empty ones dropped
RECURSIVE SplitSlash(_)
SplitSlash(s) ==
    LET idx == {i \in 1..Len(s) : s[i] = "/"}
    IN  IF s = <<>> THEN <<>>
        ELSE IF idx = {} THEN <<s>>
        ELSE LET i == Min(idx)
             IN  (IF i = 1 THEN <<>> ELSE <<SubSeq(s, 1, i - 1)>>)
                 \o SplitSlash(SubSeq(s, i + 1, Len(s)))

\* "/".join(components)
RECURSIVE JoinSlash(_)
JoinSlash(cs) ==
    IF cs = <<>> THEN <<>>
    ELSE IF Len(cs) = 1 THEN cs[1]
    ELSE cs[1] \o <<"/">> \o JoinSlash(Tail(cs))

\* s without its trailing "/" characters
RECURSIVE RStripSlash(_)
RStripSlash(s) ==
    IF s # <<>> /\ s[Len(s)] = "/" THEN RStripSlash(SubSeq(s, 1, Len(s) - 1)) ELSE s

(***************************************************************************)
(* posixpath                                                               *)
(***************************************************************************)
Dot == <<".">>
DotDot == <<".", ".">>

\* the directory the process runs in, as components
CwdComps == << <<"w">> >>

\* os.path.join(a, b)
Join(a, b) ==
    IF StartsWith(b, <<"/">>) THEN b
    ELSE IF a = <<>> \/ EndsWith(a, <<"/">>) THEN a \o b
    ELSE a \o <<"/">> \o b

\* os.path.split(p): <<head, tail>>
Split(p) ==
    LET idx == {i \in 1..Len(p) : p[i] = "/"}
        i == IF idx = {} THEN 0 ELSE CHOOSE x \in idx : \A y \in idx : y <= x
        head == SubSeq(p, 1, i)
        tail == SubSeq(p, i + 1, Len(p))
    IN  <<IF RStripSlash(head) = <<>> THEN head ELSE RStripSlash(head), tail>>

\* os.path.dirname(p)
Dirname(p) == Split(p)[1]

\* os.path.normpath on components: "." dropped, ".." cancels the component before it
RECURSIVE NormComps(_, _)
NormComps(done, cs) ==
    IF cs = <<>> THEN done
    ELSE IF Head(cs) = Dot THEN NormComps(done, Tail(cs))
    ELSE IF Head(cs) = DotDot
         THEN NormComps(IF done = <<>> THEN <<>> ELSE SubSeq(done, 1, Len(done) - 1), Tail(cs))
    ELSE NormComps(Append(done, Head(cs)), Tail(cs))

\* os.path.abspath(p), as components
AbsComps(p) ==
    NormComps(<<>>, (IF StartsWith(p, <<"/">>) THEN <<>> ELSE CwdComps) \o SplitSlash(p))

\* the length of the common prefix of two component lists
CommonLen(a, b) ==
    LET same == {i \in 0..Len(a) : i <= Len(b) /\ SubSeq(a, 1, i) = SubSeq(b, 1, i)}
    IN  CHOOSE i \in same : \A j \in same : j <= i

\* os.path.relpath(p, start)
RelPath(p, start) ==
    LET sl == AbsComps(start)
        pl == AbsComps(p)
        i == CommonLen(sl, pl)
        rel == [k \in 1..(Len(sl) - i) |-> DotDot] \o SubSeq(pl, i + 1, Len(pl))
    IN  IF rel = <<>> THEN Dot ELSE JoinSlash(rel)

(***************************************************************************)
(* The file system                                                         *)
(***************************************************************************)
NoneE == [k |-> "none"]
DirE == [k |-> "dir"]
\* a regular file; age "old" is a build output older than its sources and
\* the generator script, "new" is anything else
FileE(age) == [k |-> "file", age |-> age]
\* neither a regular file nor a directory: a fifo, a socket, a dangling link
OtherE == [k |-> "other"]
\* a symbolic link to the directory at node n
LinkE(n) == [k |-> "link", to |-> n]

EntryAt(f, n) == IF n \in DOMAIN f THEN f[n] ELSE NoneE

Parent(n) == IF n = <<>> THEN <<>> ELSE SubSeq(n, 1, Len(n) - 1)

\* the kernel's path walk: the components cs resolved from directory node at;
\* follow: whether a symbolic link in the last component is followed
RECURSIVE WalkFrom(_, _, _, _)
WalkFrom(f, at, cs, follow) ==
    IF cs = <<>> THEN [ok |-> TRUE, node |-> at]
    ELSE LET c == Head(cs)
             rest == Tail(cs)
             n == IF c = Dot THEN at ELSE IF c = DotDot THEN Parent(at) ELSE Append(at, c)
             e == EntryAt(f, n)
         IN  IF e.k = "none" THEN [ok |-> FALSE, node |-> n]
             ELSE IF e.k = "link" /\ (rest # <<>> \/ follow)
                  THEN IF EntryAt(f, e.to).k = "dir"
                       THEN WalkFrom(f, e.to, rest, follow)
                       ELSE [ok |-> FALSE, node |-> n]
             ELSE IF rest = <<>> THEN [ok |-> TRUE, node |-> n]
             ELSE IF e.k = "dir" THEN WalkFrom(f, n, rest, follow)
             ELSE [ok |-> FALSE, node |-> n]

StartNode(p) == IF StartsWith(p, <<"/">>) THEN <<>> ELSE CwdComps

\* stat(2) and lstat(2)
Stat(f, p) == WalkFrom(f, StartNode(p), SplitSlash(p), TRUE)
LStat(f, p) == WalkFrom(f, StartNode(p), SplitSlash(p), FALSE)

\* os.path.exists, os.path.isfile, os.path.isdir
Exists(f, p) == Stat(f, p).ok
IsFile(f, p) == Stat(f, p).ok /\ EntryAt(f, Stat(f, p).node).k = "file"
IsDir(f, p) == Stat(f, p).ok /\ EntryAt(f, Stat(f, p).node).k = "dir"

\* os.path.realpath(p), as the node the path leads to
RealPath(f, p) == IF Stat(f, p).ok THEN Stat(f, p).node ELSE AbsComps(p)

\* the nodes directly inside directory node d
Children(f, d) ==
    {n \in DOMAIN f : Len(n) = Len(d) + 1 /\ SubSeq(n, 1, Len(d)) = d /\ f[n].k # "none"}

\* os.listdir(p): the names in the directory
ListDir(f, p) == {n[Len(n)] : n \in Children(f, RealPath(f, p))}

\* os.rmdir(p): [err, fs]
Rmdir(f, p) ==
    LET st == LStat(f, p)
        e == EntryAt(f, st.node)
    IN  IF ~st.ok THEN [err |-> "ENOENT", fs |-> f]
        ELSE IF e.k # "dir" THEN [err |-> "ENOTDIR", fs |-> f]
        ELSE IF Children(f, st.node) # {} THEN [err |-> "ENOTEMPTY", fs |-> f]
        ELSE [err |-> "", fs |-> [f EXCEPT ![st.node] = NoneE]]

\* os.remove(p): [err, fs]
Remove(f, p) ==
    LET st == LStat(f, p)
        e == EntryAt(f, st.node)
    IN  IF ~st.ok THEN [err |-> "ENOENT", fs |-> f]
        ELSE IF e.k = "dir" THEN [err |-> "EISDIR", fs |-> f]
        ELSE [err |-> "", fs |-> [f EXCEPT ![st.node] = NoneE]]

(***************************************************************************)
(* State                                                                   *)
(***************************************************************************)
VARIABLES
    pc,                    \* the statement of the main script that is running
    run,                   \* 1 for the first run of the script, 2 for the second
    fs,                    \* the file system
    exit_status,           \* the status the process ended with, -1 while it runs
    logged,                \* what the logger has written: "" | "done" | "exception"
    page_links,            \* per HTML target, the attribute values its parser reports
    html_targets,          \* the first stage makefile entries
    scan_queue,            \* raw dependencies scan_html_dependencies still has to see
    scanned,               \* the raw dependencies it has seen
    dropped,               \* the raw dependencies it skipped with continue
    local_dependencies,
    remote_dependencies,
    res_pending,           \* dependencies resolve_local_dependencies still iterates
    res_result,            \* its result list
    resolved_dependencies, \* what it returned to the main script
    res_error,             \* the dependency its exception names, or <<>>
    gen_queue,             \* resolved dependencies generate_dependency_makefile iterates
    dependency_targets,    \* its entries
    mk_stage,              \* "" | "html" | "asset": the makefile make is running
    mk_state,              \* per entry of the makefile: where make is with its rule
    mk_failed,             \* make has seen a recipe fail
    mk_log,                \* per entry, the nodes its recipe wrote or deleted
    fa_path,               \* find_all_files: the path argument
    fa_flt,                \* "all" | "md": the flt argument
    include_dirs,
    path_stack,
    visited_paths,
    fa_result,
    cur_path,              \* the directory whose listing the for loop iterates, or <<>>
    cur_entries,           \* the names of that listing the loop has not reached
    listed,                \* the directories (as nodes) that were listed, in order
    file_set,              \* find_stale_files: the expected files and their parents
    stale_files,           \* the stale files the deletion loop has not reached
    deleted,               \* the paths the deletion loop removed, in order
    rm_error,              \* the error of the removal that failed, or ""
    hist,                  \* what has happened in this run, for the ordering claims
    snapshot               \* an output tree kept for comparison: [done, tree, deleted]

mainVars == <<pc, run, exit_status, logged, page_links, html_targets, hist, snapshot>>
scanVars == <<scan_queue, scanned, dropped, local_dependencies, remote_dependencies>>
resVars == <<res_pending, res_result, resolved_dependencies, res_error>>
genVars == <<gen_queue, dependency_targets>>
mkVars == <<mk_stage, mk_state, mk_failed, mk_log>>
faVars == <<fa_path, fa_flt, include_dirs, path_stack, visited_paths, fa_result,
            cur_path, cur_entries, listed>>
staleVars == <<file_set, stale_files, deleted, rm_error>>
vars == <<fs, mainVars, scanVars, resVars, genVars, mkVars, faVars, staleVars>>

\* no tree kept yet
NoSnapshot == [done |-> FALSE, tree |-> {}, deleted |-> <<>>]

\* the values of the variables of a part of the program that is not running
MainIdle ==
    /\ run = 1 /\ exit_status = -1 /\ logged = "" /\ page_links = <<>>
    /\ html_targets = <<>> /\ hist = {} /\ snapshot = NoSnapshot
ScanIdle ==
    /\ scan_queue = <<>> /\ scanned = {} /\ dropped = {}
    /\ local_dependencies = {} /\ remote_dependencies = {}
ResIdle ==
    /\ res_pending = {} /\ res_result = <<>> /\ resolved_dependencies = <<>>
    /\ res_error = <<>>
GenIdle == gen_queue = <<>> /\ dependency_targets = <<>>
MkIdle == mk_stage = "" /\ mk_state = <<>> /\ mk_failed = FALSE /\ mk_log = <<>>
FaIdle ==
    /\ fa_path = <<>> /\ fa_flt = "all" /\ include_dirs = FALSE /\ path_stack = <<>>
    /\ visited_paths = {} /\ fa_result = <<>> /\ cur_path = <<>> /\ cur_entries = {}
    /\ listed = <<>>
StaleIdle == file_set = {} /\ stale_files = <<>> /\ deleted = <<>> /\ rm_error = ""

(***************************************************************************)
(* scan_html_dependencies                                                  *)
(***************************************************************************)
MAILTO == <<"m", "a", "i", "l", "t", "o", ":">>
HTTP == <<"h", "t", "t", "p", ":">>
HTTPS == <<"h", "t", "t", "p", "s", ":">>
FTP == <<"f", "t", "p", ":">>

\* the branch the loop body takes for a raw dependency
ClassifyNoFtp(dependency) ==
    LET d == SplitHash(dependency)
    IN  IF Len(d) = 0 \/ StartsWith(d, MAILTO) THEN "dropped"
        ELSE IF StartsWith(d, HTTP) \/ StartsWith(d, HTTPS) THEN "remote"
        ELSE "local"

Classify(dependency) ==
    LET d == SplitHash(dependency)
    IN  IF Len(d) = 0 \/ StartsWith(d, MAILTO) THEN "dropped"
        ELSE IF StartsWith(d, HTTP) \/ StartsWith(d, HTTPS) \/ StartsWith(d, FTP)
             THEN "remote"
        ELSE "local"

\* one iteration of the inner loop of scan_html_dependencies
ScanDependency ==
    /\ pc = "scan"
    /\ scan_queue # <<>>
    /\ LET dependency == Head(scan_queue)
           d == SplitHash(dependency)
           branch == Classify(dependency)
       IN  /\ scan_queue' = Tail(scan_queue)
           /\ scanned' = scanned \cup {dependency}
           /\ dropped' = IF branch = "dropped" THEN dropped \cup {dependency} ELSE dropped
           /\ remote_dependencies' =
                 IF branch = "remote" THEN remote_dependencies \cup {d}
                 ELSE remote_dependencies
           /\ local_dependencies' =
                 IF branch = "local" THEN local_dependencies \cup {d}
                 ELSE local_dependencies
    /\ UNCHANGED <<fs, mainVars, resVars, genVars, mkVars, faVars, staleVars>>

\* raw dependencies: a scheme-like beginning followed by a short tail
Prefixes ==
    {<<>>, MAILTO, HTTP, HTTPS, FTP,
     <<"m", "a", "i", "l", "t", "o">>, <<"h", "t", "t", "p">>, <<"f", "t", "p">>,
     <<"M", "A", "I", "L", "T", "O", ":">>,
     <<"m", "a", "i", "l", "#", "t", "o", ":">>, <<"#", "f", "t", "p", ":">>}
Tails == {<<>>, <<"#">>, <<"x">>, <<"#", "x">>, <<"x", "#", "#">>}
RawDeps == {p \o t : p \in Prefixes, t \in Tails}
MaxScan == 2
ScanInputs == UNION {[1..n -> RawDeps] : n \in 0..MaxScan}

InitClassify ==
    /\ pc = "scan"
    /\ fs = <<>>
    /\ MainIdle /\ ResIdle /\ GenIdle /\ MkIdle /\ FaIdle /\ StaleIdle
    /\ scan_queue \in ScanInputs
    /\ scanned = {} /\ dropped = {}
    /\ local_dependencies = {} /\ remote_dependencies = {}

SpecClassify == InitClassify /\ [][ScanDependency]_vars

\* C5: every raw dependency that was scanned is in exactly one of the local
\* set, the remote set and the dropped ones (the sets hold it without its
\* fragment); it is dropped exactly if it is empty without its fragment or
\* starts with "mailto:", otherwise it is remote exactly if it starts with
\* "http:", "https:" or "ftp:"; and a dependency without its fragment is
\* classified like the dependency itself.
ClassifyPartition ==
    \A r \in scanned :
        LET d == SplitHash(r)
            inLocal == d \in local_dependencies
            inRemote == d \in remote_dependencies
            inDropped == r \in dropped
            isRemote == StartsWith(r, HTTP) \/ StartsWith(r, HTTPS) \/ StartsWith(r, FTP)
        IN  /\ (inLocal /\ ~inRemote /\ ~inDropped)
               \/ (~inLocal /\ inRemote /\ ~inDropped)
               \/ (~inLocal /\ ~inRemote /\ inDropped)
            /\ inDropped <=> (Len(d) = 0 \/ StartsWith(r, MAILTO))
            /\ ~inDropped => (inRemote <=> isRemote)
            /\ Classify(d) = Classify(r)

\* a dependency with a fragment went to each of the three classes
ClassifyWitness ==
    /\ scan_queue = <<>>
    /\ \E r \in dropped : r # SplitHash(r) /\ SplitHash(r) # <<>>
    /\ \E r \in scanned : r # SplitHash(r) /\ SplitHash(r) \in remote_dependencies
                          /\ StartsWith(r, FTP)

(***************************************************************************)
(* resolve_local_dependencies                                              *)
(***************************************************************************)
\* the directories of the command line (argparser)
SourceDir == <<"m", "/">>
TargetDir == <<"t", "/">>
StaticDir == <<"s", "/">>
ContentDir == <<"c", "/">>

\* the search_paths argument of the call in the main script
SearchPaths == <<StaticDir, ContentDir, TargetDir>>

\* the inner loop: the index of the search path the dependency is found in, 0 if none
FirstMatch(f, dep) ==
    LET hits == {i \in 1..Len(SearchPaths) : IsFile(f, Join(SearchPaths[i], dep))}
    IN  IF hits = {} THEN 0 ELSE Min(hits)

\* one iteration of the loop over the dependencies
ResolveDependency ==
    /\ pc = "resolve"
    /\ \E dep \in res_pending :
        LET tar == Join(TargetDir, dep)
            i == FirstMatch(fs, dep)
        IN  IF i # 0
            THEN /\ res_result' = Append(res_result, <<Join(SearchPaths[i], dep), tar>>)
                 /\ res_pending' = res_pending \ {dep}
                 /\ UNCHANGED <<pc, res_error, hist>>
            ELSE /\ res_error' = dep
                 /\ pc' = "failed"
                 /\ hist' = hist \cup {"unresolved"}
                 /\ UNCHANGED <<res_result, res_pending>>
    /\ UNCHANGED <<fs, run, exit_status, logged, page_links, html_targets, snapshot,
                   resolved_dependencies, scanVars, genVars, mkVars, faVars, staleVars>>

\* return result, assigned to resolved_dependencies
ResolveReturn ==
    /\ pc = "resolve"
    /\ res_pending = {}
    /\ resolved_dependencies' = res_result
    /\ pc' = "resolved"
    /\ UNCHANGED <<fs, run, exit_status, logged, page_links, html_targets, hist, snapshot,
                   res_pending, res_result, res_error,
                   scanVars, genVars, mkVars, faVars, staleVars>>

\* a function from the nodes ns, each with one of the entries es
TreesOver(ns, es) == [ns -> es]

\* the directories every file system of the model has
\* __file__ and argparser.template
ScriptFile == <<"f", ".", "p", "y">>
TemplateFile == <<"s", "/", "l", ".", "t", "p", "l">>

BaseDirs ==
    (<<>> :> DirE) @@ (CwdComps :> DirE)
    @@ (<< <<"w">>, ScriptFile >> :> FileE("new"))
    @@ (<< <<"w">>, <<"s">>, <<"l", ".", "t", "p", "l">> >> :> FileE("new"))
    @@ (<< <<"w">>, <<"m">> >> :> DirE) @@ (<< <<"w">>, <<"t">> >> :> DirE)
    @@ (<< <<"w">>, <<"s">> >> :> DirE) @@ (<< <<"w">>, <<"c">> >> :> DirE)

\* the dependencies of the resolver's runs: relative, nested, absolute
ResolveDeps == {<<"x">>, <<"d", "/", "y">>, <<"/", "x">>}
ResolveNodes ==
    {<< <<"w">>, <<"s">>, <<"x">> >>, << <<"w">>, <<"c">>, <<"x">> >>,
     << <<"w">>, <<"t">>, <<"x">> >>, << <<"x">> >>,
     << <<"w">>, <<"s">>, <<"d">>, <<"y">> >>, << <<"w">>, <<"c">>, <<"d">>, <<"y">> >>}
ResolveDirs ==
    (<< <<"w">>, <<"s">>, <<"d">> >> :> DirE) @@ (<< <<"w">>, <<"c">>, <<"d">> >> :> DirE)

InitResolve ==
    /\ pc = "resolve"
    /\ \E tree \in TreesOver(ResolveNodes, {NoneE, FileE("new"), DirE}) :
           fs = tree @@ ResolveDirs @@ BaseDirs
    /\ MainIdle /\ ScanIdle /\ GenIdle /\ MkIdle /\ FaIdle /\ StaleIdle
    /\ res_pending \in (SUBSET ResolveDeps) \ {{}}
    /\ res_result = <<>> /\ resolved_dependencies = <<>> /\ res_error = <<>>

SpecResolve == InitResolve /\ [][ResolveDependency \/ ResolveReturn]_vars

\* "root/dependency": the dependency path inside a root directory
Under(root, dep) == RStripSlash(root) \o <<"/">> \o dep

\* the first search root that holds the dependency path as a regular file, 0 if none
FirstRootHolding(f, dep) ==
    LET hits == {i \in 1..Len(SearchPaths) : IsFile(f, Under(SearchPaths[i], dep))}
    IN  IF hits = {} THEN 0 ELSE Min(hits)

\* C6: every resolved entry is (source in the first search root that holds the
\* dependency path as a regular file, outputRoot/dependency); and when no
\* search root holds a dependency the call fails, names that dependency and
\* returns nothing.
ResolveFirstRoot ==
    /\ \A i \in 1..Len(res_result) :
          \E dep \in ResolveDeps :
              /\ res_result[i][2] = Under(TargetDir, dep)
              /\ FirstRootHolding(fs, dep) # 0
              /\ res_result[i][1] = Under(SearchPaths[FirstRootHolding(fs, dep)], dep)
    /\ pc = "failed" =>
          /\ FirstRootHolding(fs, res_error) = 0
          /\ resolved_dependencies = <<>>
    /\ \A dep \in res_pending : FirstRootHolding(fs, dep) = 0 => pc # "resolved"

\* the same statement for the relative dependencies alone
ResolveFirstRootRelative ==
    /\ \A i \in 1..Len(res_result) :
          StartsWith(res_result[i][2], TargetDir) =>
          \E dep \in ResolveDeps :
              /\ res_result[i][2] = Under(TargetDir, dep)
              /\ FirstRootHolding(fs, dep) # 0
              /\ res_result[i][1] = Under(SearchPaths[FirstRootHolding(fs, dep)], dep)
    /\ (pc = "failed" /\ ~StartsWith(res_error, <<"/">>)) =>
          /\ FirstRootHolding(fs, res_error) = 0
          /\ resolved_dependencies = <<>>

(***************************************************************************)
(* generate_dependency_makefile                                            *)
(***************************************************************************)
\* build_makefile_entry: the entry as (target, dependencies, commands); the
\* makefile text it is printed to is not modelled
BuildMakefileEntry(target, dependencies, commands) ==
    [target |-> target, dependencies |-> dependencies, commands |-> commands]

\* build_convert_command, build_guetzli_command
BuildConvertCommand(src, tar) ==
    <<src, <<"-", "r", "e", "s", "i", "z", "e">>,
      <<"9", "2", "1", "6", "0", "0", "@", ">">>, <<"-", "s", "t", "r", "i", "p">>, tar>>
BuildGuetzliCommand(src, tar) ==
    <<<<"-", "-", "q", "u", "a", "l", "i", "t", "y">>, <<"8", "4">>, src, tar>>

MinusP == <<"-", "p">>

\* the N of random_str(N) in the temporary name
RandomStrLen == 8
\* outcomes of random_str: of the 36^8 strings, the ones of one repeated character
RandomChars == {"a", "0"}
RandomStr(N) == {[i \in 1..N |-> c] : c \in RandomChars}

DotJpg == <<".", "j", "p", "g">>
DotJpeg == <<".", "j", "p", "e", "g">>
DotPng == <<".", "p", "n", "g">>

\* the test that selects the transcoding rule
IsJpegCaseSensitive(tar) == EndsWith(tar, DotJpg) \/ EndsWith(tar, DotJpeg)

IsJpeg(tar) == EndsWith(Lower(tar), DotJpg) \/ EndsWith(Lower(tar), DotJpeg)

\* the entry of the transcoding branch, with the random string r
JpegEntry(src, tar, r) ==
    LET tmp_tar == tar \o <<".">> \o r \o DotPng
    IN  BuildMakefileEntry(tar, <<src>>,
            << <<"mkdir", <<MinusP, Dirname(tar)>> >>,
               <<"convert", BuildConvertCommand(src, tmp_tar)>>,
               <<"guetzli", BuildGuetzliCommand(tmp_tar, tar)>>,
               <<"rm", <<tmp_tar>> >> >>)

\* the entry of the copy branch
CopyEntry(src, tar) ==
    BuildMakefileEntry(tar, <<ScriptFile, src>>,
        << <<"mkdir", <<MinusP, Dirname(tar)>> >>, <<"cp", <<src, tar>> >> >>)

\* one iteration of the loop over resolved_dependencies
GenerateEntry ==
    /\ pc = "generate"
    /\ gen_queue # <<>>
    /\ LET src == Head(gen_queue)[1]
           tar == Head(gen_queue)[2]
       IN  IF IsJpeg(tar)
           THEN \E r \in RandomStr(RandomStrLen) :
                    dependency_targets' = Append(dependency_targets, JpegEntry(src, tar, r))
           ELSE dependency_targets' = Append(dependency_targets, CopyEntry(src, tar))
    /\ gen_queue' = Tail(gen_queue)
    /\ UNCHANGED <<fs, mainVars, scanVars, resVars, mkVars, faVars, staleVars>>

\* file names of dependencies, for the extension test
GenNames ==
    {<<"x", ".", "j", "p", "g">>, <<"x", ".", "J", "P", "G">>,
     <<"d", "/", "x", ".", "J", "p", "e", "g">>, <<"x", ".", "j", "p", "e", "g">>,
     <<"x", ".", "p", "n", "g">>, <<"x", ".", "j", "p", "g", "x">>,
     <<"x", "j", "p", "g">>, <<"d", "/", "x", ".", "j", "p", "g", ".", "g", "z">>,
     <<".", "j", "p", "g">>, <<"x", ".", "j", "p", "e">>,
     <<"x", ".", "j", "p", "g", ".", "a", "a", "a", "a", "a", "a", "a", "a", ".", "p", "n", "g">>}
GenPairs == {<<Join(root, n), Join(TargetDir, n)>> : root \in {StaticDir, ContentDir}, n \in GenNames}
MaxResolved == 2
\* lists of resolved dependencies: no target twice
GenInputs ==
    {q \in UNION {[1..n -> GenPairs] : n \in 0..MaxResolved} :
        \A i, j \in 1..Len(q) : i # j => q[i][2] # q[j][2]}

InitGenerate ==
    /\ pc = "generate"
    /\ fs = BaseDirs
    /\ MainIdle /\ ScanIdle /\ MkIdle /\ FaIdle /\ StaleIdle
    /\ gen_queue \in GenInputs
    /\ res_pending = {} /\ res_result = gen_queue /\ resolved_dependencies = gen_queue
    /\ res_error = <<>>
    /\ dependency_targets = <<>>

SpecGenerate == InitGenerate /\ [][GenerateEntry]_vars

\* the spellings of an extension in upper and lower case
UpperOf(c) ==
    IF \E j \in 1..Len(LowerCase) : LowerCase[j] = c
    THEN UpperCase[CHOOSE j \in 1..Len(LowerCase) : LowerCase[j] = c]
    ELSE c
CaseVariants(ext) ==
    {[i \in 1..Len(ext) |-> IF i \in up THEN UpperOf(ext[i]) ELSE ext[i]] :
        up \in SUBSET (1..Len(ext))}
JpegExtensions == CaseVariants(DotJpg) \cup CaseVariants(DotJpeg)
HasJpegExtension(tar) == \E ext \in JpegExtensions : EndsWith(tar, ext)

\* the commands of e are the transcoding recipe from src to its target
IsTranscodeRule(e, src) ==
    /\ e.dependencies = <<src>>
    /\ Len(e.commands) = 4
    /\ e.commands[1] = <<"mkdir", <<MinusP, Dirname(e.target)>> >>
    /\ e.commands[2][1] = "convert" /\ e.commands[2][2][1] = src
    /\ e.commands[3][1] = "guetzli" /\ e.commands[3][2][4] = e.target
    /\ e.commands[2][2][5] = e.commands[3][2][3]
    /\ e.commands[4] = <<"rm", <<e.commands[2][2][5]>> >>
    /\ e.commands[2][2][5] # e.target /\ e.commands[2][2][5] # src

\* the commands of e are the copy recipe from src to its target
IsCopyRule(e, src) ==
    /\ e.dependencies = <<ScriptFile, src>>
    /\ e.commands = << <<"mkdir", <<MinusP, Dirname(e.target)>> >>, <<"cp", <<src, e.target>> >> >>

\* C8: the entries are, in order, one per resolved dependency that the loop
\* has passed; an entry whose target ends in .jpg or .jpeg in any mix of
\* upper and lower case is the transcoding rule with the source as its only
\* dependency, any other entry is the copy rule with the dependencies
\* (script, source); the first command of every entry is mkdir -p of the
\* directory of the target.
GenerateRules ==
    /\ Len(dependency_targets) + Len(gen_queue) = Len(resolved_dependencies)
    /\ \A i \in 1..Len(dependency_targets) :
          LET e == dependency_targets[i]
              src == resolved_dependencies[i][1]
              tar == resolved_dependencies[i][2]
          IN  /\ e.target = tar
              /\ e.commands[1] = <<"mkdir", <<MinusP, Dirname(tar)>> >>
              /\ IF HasJpegExtension(tar) THEN IsTranscodeRule(e, src) ELSE IsCopyRule(e, src)

\* the loop is over, and it made a transcoding rule for a target in upper
\* case and a copy rule
GenerateWitness ==
    /\ gen_queue = <<>>
    /\ \E i, j \in 1..Len(dependency_targets) :
          /\ EndsWith(dependency_targets[i].target, <<".", "J", "P", "G">>)
          /\ Len(dependency_targets[i].commands) = 4
          /\ Len(dependency_targets[j].commands) = 2

(***************************************************************************)
(* run_makefile: make -j on the entries, and the tools of the recipes      *)
(***************************************************************************)
\* os.path.basename(p)
Basename(p) == Split(p)[2]

SetNode(f, n, e) == (n :> e) @@ f

\* the directory part of p as a path the kernel can walk ("" is the working directory)
DirOf(p) == IF Dirname(p) = <<>> THEN Dot ELSE Dirname(p)

\* mkdir -p p: [err, fs]
RECURSIVE MkdirP(_, _)
MkdirP(f, p) ==
    IF IsDir(f, p) THEN [err |-> "", fs |-> f]
    ELSE IF LStat(f, p).ok THEN [err |-> "EEXIST", fs |-> f]
    ELSE LET up == IF Dirname(p) = <<>> \/ Dirname(p) = p
                   THEN [err |-> "", fs |-> f] ELSE MkdirP(f, Dirname(p))
         IN  IF up.err # "" THEN up
             ELSE IF ~IsDir(up.fs, DirOf(p)) THEN [err |-> "ENOTDIR", fs |-> f]
             ELSE [err |-> "",
                   fs |-> SetNode(up.fs, Append(RealPath(up.fs, DirOf(p)), Basename(p)), DirE)]

\* a tool writes its output file p: [err, fs, node]
WriteFile(f, p) ==
    LET st == Stat(f, p)
        at == Append(RealPath(f, DirOf(p)), Basename(p))
    IN  IF st.ok
        THEN IF EntryAt(f, st.node).k = "file"
             THEN [err |-> "", fs |-> SetNode(f, st.node, FileE("new")), node |-> st.node]
             ELSE [err |-> "EISDIR", fs |-> f, node |-> st.node]
        ELSE IF IsDir(f, DirOf(p)) /\ EntryAt(f, at).k = "none"
             THEN [err |-> "", fs |-> SetNode(f, at, FileE("new")), node |-> at]
             ELSE [err |-> "ENOENT", fs |-> f, node |-> at]

\* a tool reads src and writes tar
ReadWrite(f, src, tar) ==
    IF ~IsFile(f, src) THEN [err |-> "ENOENT", fs |-> f, node |-> <<>>]
    ELSE WriteFile(f, tar)

\* cp src tar
Copy(f, src, tar) ==
    IF ~IsFile(f, src) THEN [err |-> "ENOENT", fs |-> f, node |-> <<>>]
    ELSE IF Exists(f, tar) /\ RealPath(f, src) = RealPath(f, tar)
         THEN [err |-> "same file", fs |-> f, node |-> <<>>]
    ELSE IF IsDir(f, tar) THEN WriteFile(f, Join(tar, Basename(src)))
    ELSE WriteFile(f, tar)

\* rm p
Rm(f, p) ==
    LET r == Remove(f, p)
    IN  [err |-> r.err, fs |-> r.fs, node |-> LStat(f, p).node]

\* the effect of one command of a recipe: [err, fs, node], node the file it
\* wrote or deleted (<<>> if none)
Exec(f, command) ==
    LET cmd == command[1]
        args == command[2]
    IN  CASE cmd = "mkdir" ->
                 [err |-> MkdirP(f, args[2]).err, fs |-> MkdirP(f, args[2]).fs, node |-> <<>>]
          [] cmd = "pandoc" -> ReadWrite(f, args[11], args[6])
          [] cmd = "convert" -> ReadWrite(f, args[1], args[5])
          [] cmd = "guetzli" -> ReadWrite(f, args[3], args[4])
          [] cmd = "cp" -> Copy(f, args[1], args[2])
          [] cmd = "rm" -> Rm(f, args[1])

\* the tools that can fail on their input (a document pandoc rejects, an
\* image convert or guetzli cannot read)
CanReject(command) == command[1] \in {"pandoc", "convert", "guetzli"}

\* the makefile make is running
MkEntries == IF mk_stage = "html" THEN html_targets ELSE dependency_targets

\* make's decision to run the recipe of e: no target, or a target older than
\* a prerequisite (a prerequisite that is the target itself is dropped)
MustRemake(f, e) ==
    \/ ~Exists(f, e.target)
    \/ /\ EntryAt(f, Stat(f, e.target).node) = FileE("old")
       /\ \E i \in 1..Len(e.dependencies) : e.dependencies[i] # e.target

\* a prerequisite that does not exist and that no rule makes
MissingPrerequisite(f, e) ==
    \E i \in 1..Len(e.dependencies) :
        e.dependencies[i] # e.target /\ ~Exists(f, e.dependencies[i])

MkWait == [st |-> "wait", at |-> 0]

\* make takes up the rule of entry i
MakeConsider(i) ==
    /\ pc = "make"
    /\ i \in 1..Len(MkEntries)
    /\ mk_state[i].st = "wait"
    /\ ~mk_failed
    /\ LET e == MkEntries[i]
       IN  IF MissingPrerequisite(fs, e)
           THEN /\ mk_state' = [mk_state EXCEPT ![i] = [st |-> "failed", at |-> 0]]
                /\ mk_failed' = TRUE
           ELSE /\ mk_state' = [mk_state EXCEPT ![i] =
                        IF MustRemake(fs, e) THEN [st |-> "run", at |-> 1]
                        ELSE [st |-> "uptodate", at |-> 0]]
                /\ UNCHANGED mk_failed
    /\ UNCHANGED <<fs, mainVars, mk_stage, mk_log, scanVars, resVars, genVars, faVars, staleVars>>

\* the next command of the recipe of entry i runs
MakeCommand(i) ==
    /\ pc = "make"
    /\ i \in 1..Len(MkEntries)
    /\ mk_state[i].st = "run"
    /\ LET e == MkEntries[i]
           k == mk_state[i].at
           r == Exec(fs, e.commands[k])
       IN  \E rejected \in IF CanReject(e.commands[k]) THEN {FALSE, TRUE} ELSE {FALSE} :
               IF r.err = "" /\ ~rejected
               THEN /\ fs' = r.fs
                    /\ mk_state' = [mk_state EXCEPT ![i] =
                            IF k = Len(e.commands) THEN [st |-> "done", at |-> 0]
                            ELSE [st |-> "run", at |-> k + 1]]
                    /\ mk_log' = [mk_log EXCEPT ![i] =
                            IF r.node = <<>> THEN @ ELSE @ \cup {r.node}]
                    /\ hist' = hist \cup {IF mk_stage = "html" THEN "html_action" ELSE "asset_action"}
                    /\ UNCHANGED mk_failed
               ELSE /\ mk_state' = [mk_state EXCEPT ![i] = [st |-> "failed", at |-> k]]
                    /\ mk_failed' = TRUE
                    /\ UNCHANGED <<fs, mk_log, hist>>
    /\ UNCHANGED <<pc, run, exit_status, logged, page_links, html_targets, snapshot, mk_stage,
                   scanVars, resVars, genVars, faVars, staleVars>>

\* res.returncode != 0
ReturnCodeIgnored(failed) == FALSE

ReturnCodeNonZero(failed) == failed

\* make has ended: run_makefile returns, or raises on a non-zero return code
RunMakefileReturn ==
    /\ pc = "make"
    /\ \A i \in 1..Len(MkEntries) : mk_state[i].st # "run"
    /\ mk_failed \/ \A i \in 1..Len(MkEntries) : mk_state[i].st # "wait"
    /\ IF ReturnCodeNonZero(mk_failed)
       THEN /\ pc' = "failed"
            /\ hist' = hist \cup {"make_error"}
       ELSE /\ pc' = IF mk_stage = "html" THEN "html_built" ELSE "assets_built"
            /\ hist' = hist \cup (IF mk_failed THEN {}
                                  ELSE {IF mk_stage = "html" THEN "html_ok" ELSE "asset_ok"})
    /\ UNCHANGED <<fs, run, exit_status, logged, page_links, html_targets, snapshot,
                   scanVars, resVars, genVars, mkVars, faVars, staleVars>>

\* run_makefile(dependency_targets), when generate_dependency_makefile has returned
MainRunAssets ==
    /\ pc = "generate"
    /\ gen_queue = <<>>
    /\ pc' = "make"
    /\ mk_stage' = "asset"
    /\ mk_state' = [i \in 1..Len(dependency_targets) |-> MkWait]
    /\ mk_log' = [i \in 1..Len(dependency_targets) |-> {}]
    /\ mk_failed' = FALSE
    /\ UNCHANGED <<fs, run, exit_status, logged, page_links, html_targets, snapshot, hist,
                   scanVars, resVars, genVars, faVars, staleVars>>

\* the dependencies of the make runs: two images, a file named like a
\* temporary file of the first, and the first image under a second spelling
MakeNames ==
    {<<"x", ".", "j", "p", "g">>,
     <<"x", ".", "j", "p", "g", ".", "a", "a", "a", "a", "a", "a", "a", "a", ".", "p", "n", "g">>,
     <<"d", "/", "y", ".", "j", "p", "e", "g">>,
     <<".", "/", "x", ".", "j", "p", "g">>}
MakePairs == {<<Join(StaticDir, n), Join(TargetDir, n)>> : n \in MakeNames}
MaxRules == 2
MakeInputs ==
    {q \in UNION {[1..n -> MakePairs] : n \in 0..MaxRules} :
        \A i, j \in 1..Len(q) : i # j => q[i][2] # q[j][2]}

NodeOf(p) == AbsComps(p)

\* the static directory with every file the dependencies name
MakeSources ==
    (NodeOf(<<"s", "/", "d">>) :> DirE)
    @@ [n \in {NodeOf(Join(StaticDir, d)) : d \in MakeNames} |-> FileE("new")]

\* output trees the make runs start from
MakeTrees ==
    {(NodeOf(<<"t", "/", "x", ".", "j", "p", "g">>) :> a)
     @@ (NodeOf(<<"t", "/", "d">>) :> b[1])
     @@ (NodeOf(<<"t", "/", "d", "/", "y", ".", "j", "p", "e", "g">>) :> b[2]) :
        a \in {NoneE, FileE("old")},
        b \in {<<NoneE, NoneE>>, <<DirE, NoneE>>, <<DirE, FileE("new")>>}}

InitMake ==
    /\ pc = "generate"
    /\ \E tree \in MakeTrees : fs = tree @@ MakeSources @@ BaseDirs
    /\ MainIdle /\ ScanIdle /\ MkIdle /\ FaIdle /\ StaleIdle
    /\ gen_queue \in MakeInputs
    /\ res_pending = {} /\ res_result = gen_queue /\ resolved_dependencies = gen_queue
    /\ res_error = <<>>
    /\ dependency_targets = <<>>

NextMake ==
    \/ GenerateEntry
    \/ MainRunAssets
    \/ \E i \in 1..MaxRules : MakeConsider(i)
    \/ \E i \in 1..MaxRules : MakeCommand(i)
    \/ RunMakefileReturn

SpecMake == InitMake /\ [][NextMake]_vars

IsTranscode(e) == Len(e.commands) = 4
\* the temporary file of a transcoding entry
TmpOf(e) == e.commands[4][2][1]

\* C10: the temporary file of a transcoding rule is not the
\* temporary file of another rule and not the target of any rule; no two
\* rules have written or deleted the same file; and a transcoding rule that
\* has completed has left no temporary file.
TempNeverShared ==
    LET E == dependency_targets
    IN  /\ \A i, j \in 1..Len(E) :
              IsTranscode(E[i]) =>
                  /\ TmpOf(E[i]) # E[j].target
                  /\ (i # j /\ IsTranscode(E[j])) => TmpOf(E[i]) # TmpOf(E[j])
        /\ pc \in {"make", "assets_built", "failed"} =>
              /\ \A i, j \in 1..Len(E) : i # j => mk_log[i] \cap mk_log[j] = {}
              /\ \A i \in 1..Len(E) :
                     (IsTranscode(E[i]) /\ mk_state[i].st = "done") => ~Exists(fs, TmpOf(E[i]))

\* target t is named like a temporary file of target tar
NamedLikeTmp(t, tar) ==
    /\ Len(t) = Len(tar) + 1 + RandomStrLen + Len(DotPng)
    /\ StartsWith(t, tar \o <<".">>)
    /\ EndsWith(t, DotPng)

\* no temporary path and target path, and no two target paths, lead to the same file
NoSharedFile(E) ==
    /\ \A i, j \in 1..Len(E) : IsTranscode(E[i]) => NodeOf(TmpOf(E[i])) # NodeOf(E[j].target)
    /\ \A i, j \in 1..Len(E) : i # j => NodeOf(E[i].target) # NodeOf(E[j].target)

\* what the entries do guarantee: the temporary file of a transcoding rule is
\* not the temporary file of another rule, not its own target and not the target of
\* another transcoding rule; it is the target of a copy rule only if that
\* target is named <target>.<8 characters>.png; and when no temporary file is
\* a target and no two targets are the same file, no two rules have written
\* or deleted the same file and a completed transcoding rule has left no
\* temporary file.
TempSharedOnlyWithNamedTarget ==
    LET E == dependency_targets
    IN  /\ \A i, j \in 1..Len(E) :
              IsTranscode(E[i]) =>
                  /\ TmpOf(E[i]) # E[i].target
                  /\ (i # j /\ IsTranscode(E[j])) =>
                         (TmpOf(E[i]) # TmpOf(E[j]) /\ TmpOf(E[i]) # E[j].target)
                  /\ TmpOf(E[i]) = E[j].target => NamedLikeTmp(E[j].target, E[i].target)
        /\ (pc \in {"make", "assets_built", "failed"} /\ NoSharedFile(E)) =>
              /\ \A i, j \in 1..Len(E) : i # j => mk_log[i] \cap mk_log[j] = {}
              /\ \A i \in 1..Len(E) :
                     (IsTranscode(E[i]) /\ mk_state[i].st = "done") => ~Exists(fs, TmpOf(E[i]))

\* two transcoding rules with different random strings have both completed
TempWitness ==
    /\ pc = "assets_built"
    /\ \E i, j \in 1..Len(dependency_targets) :
          /\ i # j
          /\ IsTranscode(dependency_targets[i]) /\ IsTranscode(dependency_targets[j])
          /\ mk_state[i].st = "done" /\ mk_state[j].st = "done"
          /\ Cardinality(mk_log[i]) = 2 /\ Cardinality(mk_log[j]) = 2
          /\ NoSharedFile(dependency_targets)

(***************************************************************************)
(* find_all_files                                                          *)
(***************************************************************************)
DotMd == <<".", "m", "d">>

\* the flt argument: everything, or the filter of get_source_files
Flt(f) == IF fa_flt = "md" THEN EndsWith(f, DotMd) ELSE TRUE

\* the statements that call find_all_files
FaCallers == {"enum", "sources", "stale_enum"}

\* a bound on the depth of the paths the walk pushes
MaxDepth == 7

\* real_path in visited_paths
NeverVisited(real_path) == FALSE

AlreadyVisited(real_path) == real_path \in visited_paths

\* one iteration of the while loop up to the for loop: pop, and either
\* continue or list the directory
FindAllFilesPop ==
    /\ pc \in FaCallers
    /\ cur_entries = {}
    /\ path_stack # <<>>
    /\ LET p == path_stack[Len(path_stack)]
           real_path == RealPath(fs, p)
       IN  /\ path_stack' = SubSeq(path_stack, 1, Len(path_stack) - 1)
           /\ IF AlreadyVisited(real_path)
              THEN UNCHANGED <<visited_paths, cur_path, cur_entries, listed>>
              ELSE /\ visited_paths' = visited_paths \cup {real_path}
                   /\ cur_path' = p
                   /\ cur_entries' = ListDir(fs, p)
                   /\ listed' = Append(listed, real_path)
    /\ UNCHANGED <<fs, mainVars, fa_path, fa_flt, include_dirs, fa_result,
                   scanVars, resVars, genVars, mkVars, staleVars>>

\* one iteration of the for loop over the listing, in the order the system gives
FindAllFilesEntry ==
    /\ pc \in FaCallers
    /\ \E name \in cur_entries :
        LET f == Join(cur_path, name)
        IN  /\ cur_entries' = cur_entries \ {name}
            /\ IF IsFile(fs, f) /\ Flt(f)
               THEN /\ fa_result' = Append(fa_result, RelPath(f, fa_path))
                    /\ UNCHANGED path_stack
               ELSE IF IsDir(fs, f)
               THEN /\ Len(SplitSlash(f)) <= MaxDepth
                    /\ path_stack' = Append(path_stack, f)
                    /\ fa_result' = IF include_dirs THEN Append(fa_result, RelPath(f, fa_path))
                                    ELSE fa_result
               ELSE UNCHANGED <<path_stack, fa_result>>
    /\ UNCHANGED <<fs, mainVars, fa_path, fa_flt, include_dirs, visited_paths, cur_path,
                   listed, scanVars, resVars, genVars, mkVars, staleVars>>

\* the while loop is over
FaReturns == cur_entries = {} /\ path_stack = <<>>

\* return result, to a caller that only takes the list
FindAllFilesReturn ==
    /\ pc = "enum"
    /\ FaReturns
    /\ pc' = "done"
    /\ UNCHANGED <<fs, run, exit_status, logged, page_links, html_targets, hist, snapshot,
                   scanVars, resVars, genVars, mkVars, faVars, staleVars>>

\* the values of the variables of find_all_files when it is called
FaCalled(path, flt, dirs) ==
    /\ fa_path' = path /\ fa_flt' = flt /\ include_dirs' = dirs
    /\ path_stack' = <<path>> /\ visited_paths' = {} /\ fa_result' = <<>>
    /\ cur_path' = <<>> /\ cur_entries' = {} /\ listed' = <<>>

\* the names below the root of the trees of the model
NameA == <<"a">>
NameB == <<"b", ".", "m", "d">>
TreeRoot == << <<"w">>, <<"t">> >>
TreeTop == {Append(TreeRoot, n) : n \in {NameA, NameB}}
TreeNodes == TreeTop \cup {Append(d, n) : d \in TreeTop, n \in {NameA, NameB}}
TreeEntries ==
    {NoneE, FileE("new"), DirE, OtherE} \cup {LinkE(d) : d \in {TreeRoot} \cup TreeTop}

\* the trees: what is inside a node is inside a directory, and a link leads
\* to a directory
WellFormed(tree) ==
    \A n \in DOMAIN tree :
        /\ (tree[n].k # "none" /\ Parent(n) \in DOMAIN tree) => tree[Parent(n)].k = "dir"
        /\ tree[n].k = "link" => (tree[n].to = TreeRoot \/ tree[tree[n].to].k = "dir")
Trees == {tree \in TreesOver(TreeNodes, TreeEntries) : WellFormed(tree)}

InitEnum ==
    /\ pc = "enum"
    /\ \E tree \in Trees : fs = tree @@ BaseDirs
    /\ MainIdle /\ ScanIdle /\ ResIdle /\ GenIdle /\ MkIdle /\ StaleIdle
    /\ fa_path = TargetDir
    /\ \E args \in {<<"all", TRUE>>, <<"md", FALSE>>} :
           fa_flt = args[1] /\ include_dirs = args[2]
    /\ path_stack = <<fa_path>> /\ visited_paths = {} /\ fa_result = <<>>
    /\ cur_path = <<>> /\ cur_entries = {} /\ listed = <<>>

NextEnum == FindAllFilesPop \/ FindAllFilesEntry \/ FindAllFilesReturn

SpecEnum == InitEnum /\ [][NextEnum]_vars

NoRepeat(q) == \A i, j \in 1..Len(q) : i # j => q[i] # q[j]

\* what the walk has left to do: the directories not listed yet, each with
\* a listing to go through, the entries of the listing and the stack
Directories == {n \in DOMAIN fs : fs[n].k = "dir"}
WalkMeasure ==
    (2 * Cardinality(DOMAIN fs) + 1) * (Cardinality(Directories) - Cardinality(visited_paths))
        + 2 * Cardinality(cur_entries) + Len(path_stack)

\* the walk never stops short of a directory: the depth bound is not reached
WalkNotCut ==
    \A name \in cur_entries : Len(SplitSlash(Join(cur_path, name))) <= MaxDepth

\* C7: find_all_files returns, whatever the links of the tree: every step of
\* the walk takes from what is left to do, which is never negative, and the
\* walk that has nothing left returns; no directory is listed twice under
\* its real path; and no relative path is in the result twice.
EnumTerminatesOnce ==
    /\ [](NoRepeat(listed) /\ NoRepeat(fa_result))
    /\ [](visited_paths \subseteq Directories /\ WalkMeasure >= 0 /\ WalkNotCut)
    /\ [][pc = "enum" => (pc' = "done" \/ WalkMeasure' < WalkMeasure)]_vars
    /\ [](pc = "enum" /\ WalkMeasure = 0 => FaReturns)

\* the walk returned from a tree with a cycle of links: a directory whose
\* link leads back to the root, reached and skipped
EnumWitness ==
    /\ pc = "done"
    /\ \E n \in TreeNodes :
          /\ fs[n] = LinkE(TreeRoot)
          /\ Len(n) = Len(TreeRoot) + 2
    /\ Len(listed) >= 2

(***************************************************************************)
(* find_stale_files and the deletion loop of the main script               *)
(***************************************************************************)
\* the paths the while loop of find_stale_files adds for one expected file
RECURSIVE SplitLoop(_)
SplitLoop(expected_file) ==
    IF expected_file = <<>> THEN {}
    ELSE {expected_file} \cup SplitLoop(Split(expected_file)[1])

FileSet(path, expected_files) ==
    UNION {SplitLoop(RelPath(expected_files[i], path)) : i \in 1..Len(expected_files)}

Targets(entries) == [i \in 1..Len(entries) |-> entries[i].target]

\* the expected files the main script passes
ExpectedFiles(html, deps) == Targets(html) \o Targets(deps)

\* q[::-1]
Reverse(q) == [i \in 1..Len(q) |-> q[Len(q) + 1 - i]]

\* the main script calls find_stale_files, which builds file_set and calls
\* find_all_files
MainFindStale ==
    /\ pc = "assets_built"
    /\ pc' = "stale_enum"
    /\ file_set' = FileSet(TargetDir, ExpectedFiles(html_targets, dependency_targets))
    /\ FaCalled(TargetDir, "all", TRUE)
    /\ UNCHANGED <<fs, run, exit_status, logged, page_links, html_targets, hist, snapshot,
                   stale_files, deleted, rm_error, scanVars, resVars, genVars, mkVars>>

\* find_all_files has returned: the filter over its reversed result
FindStaleFilesReturn ==
    /\ pc = "stale_enum"
    /\ FaReturns
    /\ stale_files' = SelectSeq(Reverse(fa_result), LAMBDA f : f \notin file_set)
    /\ pc' = "delete"
    /\ UNCHANGED <<fs, run, exit_status, logged, page_links, html_targets, hist, snapshot,
                   file_set, deleted, rm_error, scanVars, resVars, genVars, mkVars, faVars>>

\* one iteration of the deletion loop
DeleteStale ==
    /\ pc = "delete"
    /\ stale_files # <<>>
    /\ LET f == Join(TargetDir, Head(stale_files))
           r == IF IsDir(fs, f) THEN Rmdir(fs, f) ELSE Remove(fs, f)
       IN  IF r.err = ""
           THEN /\ fs' = r.fs
                /\ deleted' = Append(deleted, f)
                /\ stale_files' = Tail(stale_files)
                /\ UNCHANGED <<pc, rm_error, hist>>
           ELSE /\ rm_error' = r.err
                /\ pc' = "failed"
                /\ hist' = hist \cup {"remove_error"}
                /\ UNCHANGED <<fs, deleted, stale_files>>
    /\ UNCHANGED <<run, exit_status, logged, page_links, html_targets, snapshot, file_set,
                   scanVars, resVars, genVars, mkVars, faVars>>

\* the loop is over: "Done!", and the script ends
MainDone ==
    /\ pc = "delete"
    /\ stale_files = <<>>
    /\ pc' = "exit"
    /\ logged' = "done"
    /\ exit_status' = 0
    /\ hist' = hist \cup {"done"}
    /\ UNCHANGED <<fs, run, page_links, html_targets, snapshot,
                   scanVars, resVars, genVars, mkVars, faVars, staleVars>>

\* the status of a script that ends after its handler has logged the exception
StatusAfterExcept == 0

\* except: logger.exception(""), and the script ends
MainExcept ==
    /\ pc = "failed"
    /\ pc' = "exit"
    /\ logged' = "exception"
    /\ exit_status' = StatusAfterExcept
    /\ UNCHANGED <<fs, run, page_links, html_targets, hist, snapshot,
                   scanVars, resVars, genVars, mkVars, faVars, staleVars>>

\* what is in the output directory: the nodes below it with their entries
OutputTree(f) ==
    {<<n, f[n]>> : n \in {m \in DOMAIN f : /\ f[m].k # "none"
                                          /\ Len(m) > Len(NodeOf(TargetDir))
                                          /\ SubSeq(m, 1, Len(NodeOf(TargetDir))) = NodeOf(TargetDir)}}

\* the expected targets of the reconciliation runs
ReconNames == {<<"a", "/", "b", ".", "m", "d">>, <<"b", ".", "m", "d">>}
MaxExpected == 1
ReconInputs ==
    UNION {[1..n -> {CopyEntry(Join(StaticDir, x), Join(TargetDir, x)) : x \in ReconNames}] :
               n \in 0..MaxExpected}

InitRecon ==
    /\ pc = "assets_built"
    /\ \E tree \in Trees : fs = tree @@ BaseDirs
    /\ run = 1 /\ exit_status = -1 /\ logged = "" /\ page_links = <<>>
    /\ html_targets = <<>> /\ hist = {"html_ok", "asset_ok"}
    /\ snapshot = [done |-> FALSE, tree |-> OutputTree(fs), deleted |-> <<>>]
    /\ ScanIdle /\ MkIdle /\ FaIdle /\ StaleIdle
    /\ dependency_targets \in ReconInputs
    /\ res_pending = {} /\ res_result = <<>> /\ resolved_dependencies = <<>>
    /\ res_error = <<>> /\ gen_queue = <<>>

NextRecon ==
    \/ MainFindStale
    \/ FindAllFilesPop
    \/ FindAllFilesEntry
    \/ FindStaleFilesReturn
    \/ DeleteStale
    \/ MainDone
    \/ MainExcept

SpecRecon == InitRecon /\ [][NextRecon]_vars

\* the nodes of the expected targets and of the directories above them,
\* below the output directory
IsPrefix(a, b) == Len(a) <= Len(b) /\ SubSeq(b, 1, Len(a)) = a
ExpectedOutputSet ==
    LET expected == ExpectedFiles(html_targets, dependency_targets)
    IN  {n \in UNION {{SubSeq(NodeOf(expected[i]), 1, k) : k \in 1..Len(NodeOf(expected[i]))} :
                         i \in 1..Len(expected)} :
            Len(n) > Len(NodeOf(TargetDir)) /\ IsPrefix(NodeOf(TargetDir), n)}

\* what was in the output directory when the reconciliation began
PreExisting == {e[1] : e \in snapshot.tree}

Finished == pc = "exit" /\ "done" \in hist

\* C1: after the reconciliation has finished, every file or directory that
\* was in the output directory and is an expected target or a directory
\* above one is still there, and every other one that was there is gone.
ReconcileExact ==
    Finished =>
        \A n \in PreExisting :
            IF n \in ExpectedOutputSet THEN EntryAt(fs, n).k # "none"
            ELSE EntryAt(fs, n).k = "none"

\* the same for output directories that hold regular files and directories only
PlainTree == \A e \in snapshot.tree : e[2].k \in {"file", "dir"}
ReconcileExactPlain == PlainTree => (pc \notin {"failed"} /\ ReconcileExact)

\* c is a path below the directory d
Below(c, d) == StartsWith(c, d \o <<"/">>)

\* C9: in the deletion order every entry below a directory comes before the
\* directory, and no removal of a directory fails because the directory is
\* not empty.
DeletionOrder ==
    /\ \A i, j \in 1..Len(stale_files) : i < j => ~Below(stale_files[j], stale_files[i])
    /\ rm_error # "ENOTEMPTY"

\* the same for output directories that hold regular files and directories only
DeletionOrderPlain == PlainTree => DeletionOrder

(***************************************************************************)
(* The main script                                                         *)
(***************************************************************************)
\* os.path.splitext(p): <<root, ext>>
SplitExt(p) ==
    LET seps == {i \in 1..Len(p) : p[i] = "/"}
        dots == {i \in 1..Len(p) : p[i] = "."}
        sep == IF seps = {} THEN 0 ELSE CHOOSE x \in seps : \A y \in seps : y <= x
        dot == IF dots = {} THEN 0 ELSE CHOOSE x \in dots : \A y \in dots : y <= x
    IN  IF dot > sep /\ \E k \in (sep + 1)..(dot - 1) : p[k] # "."
        THEN <<SubSeq(p, 1, dot - 1), SubSeq(p, dot, Len(p))>>
        ELSE <<p, <<>> >>

DotHtml == <<".", "h", "t", "m", "l">>

BuildPandocCommand(src, tar, template) ==
    <<"-f", "markdown", "-t", "html5", "-o", tar, "-s", "--mathml",
      <<"--template=">> \o template, "--smart", src>>

\* the entry generate_first_stage_makefile appends for source_file
HtmlEntry(source_file) ==
    LET source_file_noext == SplitExt(source_file)[1]
        src == Join(SourceDir, source_file)
        tar_html == Join(TargetDir, source_file_noext \o DotHtml)
    IN  BuildMakefileEntry(tar_html, <<ScriptFile, TemplateFile, src>>,
            << <<"mkdir", <<MinusP, Dirname(tar_html)>> >>,
               <<"pandoc", BuildPandocCommand(src, tar_html, TemplateFile)>> >>)

\* the checks of the target and the source directory, up to the call of
\* find_all_files in get_source_files
MainConfig ==
    /\ pc = "config"
    /\ LET made == IF ~Exists(fs, TargetDir) THEN MkdirP(fs, TargetDir)
                   ELSE [err |-> IF IsDir(fs, TargetDir) THEN "" ELSE "not a directory",
                         fs |-> fs]
       IN  IF made.err # "" \/ ~IsDir(made.fs, SourceDir)
           THEN /\ pc' = "failed"
                /\ hist' = hist \cup {"config_error"}
                /\ fs' = made.fs
                /\ UNCHANGED faVars
           ELSE /\ pc' = "sources"
                /\ fs' = made.fs
                /\ FaCalled(SourceDir, "md", FALSE)
                /\ UNCHANGED hist
    /\ UNCHANGED <<run, exit_status, logged, page_links, html_targets, snapshot,
                   scanVars, resVars, genVars, mkVars, staleVars>>

\* get_source_files has returned: the entries of the first stage, and
\* run_makefile(html_targets) starts make
GenerateFirstStage ==
    /\ pc = "sources"
    /\ FaReturns
    /\ html_targets' = [i \in 1..Len(fa_result) |-> HtmlEntry(fa_result[i])]
    /\ pc' = "make"
    /\ mk_stage' = "html"
    /\ mk_state' = [i \in 1..Len(fa_result) |-> MkWait]
    /\ mk_log' = [i \in 1..Len(fa_result) |-> {}]
    /\ mk_failed' = FALSE
    /\ UNCHANGED <<fs, run, exit_status, logged, page_links, hist, snapshot,
                   scanVars, resVars, genVars, faVars, staleVars>>

\* the attribute values of the pages, in the order of the targets
RECURSIVE PageDependencies(_, _)
PageDependencies(links, targets) ==
    IF targets = <<>> THEN <<>>
    ELSE (IF Head(targets) \in DOMAIN links THEN links[Head(targets)] ELSE <<>>)
             \o PageDependencies(links, Tail(targets))

\* scan_html_dependencies is called with the targets of the first stage
MainScan ==
    /\ pc = "html_built"
    /\ pc' = "scan"
    /\ scan_queue' = PageDependencies(page_links, Targets(html_targets))
    /\ scanned' = {} /\ dropped' = {}
    /\ local_dependencies' = {} /\ remote_dependencies' = {}
    /\ UNCHANGED <<fs, run, exit_status, logged, page_links, html_targets, hist, snapshot,
                   resVars, genVars, mkVars, faVars, staleVars>>

\* scan_html_dependencies has returned, resolve_local_dependencies is called
MainResolve ==
    /\ pc = "scan"
    /\ scan_queue = <<>>
    /\ pc' = "resolve"
    /\ res_pending' = local_dependencies
    /\ res_result' = <<>>
    /\ UNCHANGED <<fs, run, exit_status, logged, page_links, html_targets, hist, snapshot,
                   resolved_dependencies, res_error, scanVars, genVars, mkVars, faVars,
                   staleVars>>

\* generate_dependency_makefile is called
MainGenerate ==
    /\ pc = "resolved"
    /\ pc' = "generate"
    /\ gen_queue' = resolved_dependencies
    /\ dependency_targets' = <<>>
    /\ UNCHANGED <<fs, run, exit_status, logged, page_links, html_targets, hist, snapshot,
                   scanVars, resVars, mkVars, faVars, staleVars>>

\* the number of runs of the script, one after the other
MaxRuns == 2

\* the script is run again: nothing of the process before is left but the
\* file system
Rerun ==
    /\ pc = "exit"
    /\ run < MaxRuns
    /\ run' = run + 1
    /\ pc' = "config"
    /\ snapshot' = [done |-> "done" \in hist, tree |-> OutputTree(fs), deleted |-> deleted]
    /\ exit_status' = -1 /\ logged' = "" /\ html_targets' = <<>> /\ hist' = {}
    /\ scan_queue' = <<>> /\ scanned' = {} /\ dropped' = {}
    /\ local_dependencies' = {} /\ remote_dependencies' = {}
    /\ res_pending' = {} /\ res_result' = <<>> /\ resolved_dependencies' = <<>>
    /\ res_error' = <<>>
    /\ gen_queue' = <<>> /\ dependency_targets' = <<>>
    /\ mk_stage' = "" /\ mk_state' = <<>> /\ mk_failed' = FALSE /\ mk_log' = <<>>
    /\ fa_path' = <<>> /\ fa_flt' = "all" /\ include_dirs' = FALSE /\ path_stack' = <<>>
    /\ visited_paths' = {} /\ fa_result' = <<>> /\ cur_path' = <<>> /\ cur_entries' = {}
    /\ listed' = <<>>
    /\ file_set' = {} /\ stale_files' = <<>> /\ deleted' = <<>> /\ rm_error' = ""
    /\ UNCHANGED <<fs, page_links>>

\* the site of the runs: one page, an image and a style sheet
PageMd == <<"p", ".", "m", "d">>
PageHtml == <<"t", "/", "p", ".", "h", "t", "m", "l">>
ImageName == <<"x", ".", "j", "p", "g">>
SheetName == <<"y", ".", "c", "s", "s">>
MissingName == <<"z">>
LinkedSheet == <<"a", "/", "y", ".", "c", "s", "s">>

\* what the page can link to
PageLinks ==
    {<<>>,
     <<ImageName>>,
     <<ImageName \o <<"#", "f">>, HTTP \o <<"h">>, SheetName>>,
     <<SheetName, MAILTO \o <<"m">>, MissingName>>,
     <<LinkedSheet>>}

\* the source trees: the page, or no source directory
SiteSources ==
    {(NodeOf(SourceDir) :> DirE) @@ (NodeOf(Join(SourceDir, PageMd)) :> FileE("new")),
     (NodeOf(SourceDir) :> NoneE) @@ (NodeOf(Join(SourceDir, PageMd)) :> NoneE)}

\* the media: the style sheet, in the content directory and in a directory
\* inside it, and the image or not
SiteMedia ==
    {(NodeOf(Join(ContentDir, SheetName)) :> FileE("new"))
     @@ (NodeOf(Join(ContentDir, <<"a">>)) :> DirE)
     @@ (NodeOf(Join(ContentDir, LinkedSheet)) :> FileE("new"))
     @@ (NodeOf(Join(StaticDir, ImageName)) :> e) : e \in {NoneE, FileE("new")}}

\* the output directories the first run starts from: none, a file in its
\* place, or a directory with a page and an image from a run before and
\* with entries no run has made
SiteNodeA == NodeOf(<<"t", "/", "a">>)
SiteNodeB == NodeOf(<<"t", "/", "a", "/", "b">>)
SiteStale ==
    {<<NoneE, NoneE>>, <<FileE("new"), NoneE>>, <<OtherE, NoneE>>,
     <<LinkE(NodeOf(TargetDir)), NoneE>>,
     <<DirE, NoneE>>, <<DirE, FileE("new")>>, <<DirE, OtherE>>}
SiteOutputs ==
    {(NodeOf(TargetDir) :> e) @@ (NodeOf(PageHtml) :> NoneE)
     @@ (NodeOf(Join(TargetDir, ImageName)) :> NoneE)
     @@ (NodeOf(Join(TargetDir, SheetName)) :> NoneE)
     @@ (SiteNodeA :> NoneE) @@ (SiteNodeB :> NoneE) : e \in {NoneE, FileE("new")}}
    \cup
    {(NodeOf(TargetDir) :> DirE) @@ (NodeOf(PageHtml) :> page)
     @@ (NodeOf(Join(TargetDir, ImageName)) :> image)
     @@ (NodeOf(Join(TargetDir, SheetName)) :> NoneE)
     @@ (SiteNodeA :> stale[1]) @@ (SiteNodeB :> stale[2]) :
        page \in {NoneE, FileE("old"), FileE("new")},
        image \in {NoneE, FileE("old"), FileE("new")},
        stale \in SiteStale}

InitPipe ==
    /\ pc = "config"
    /\ \E out \in SiteOutputs, media \in SiteMedia, sources \in SiteSources :
           fs = out @@ media @@ sources @@ BaseDirs
    /\ run = 1 /\ exit_status = -1 /\ logged = "" /\ hist = {} /\ snapshot = NoSnapshot
    /\ html_targets = <<>>
    /\ page_links \in [{PageHtml} -> PageLinks]
    /\ ScanIdle /\ ResIdle /\ GenIdle /\ MkIdle /\ FaIdle /\ StaleIdle

NextPipe ==
    \/ MainConfig
    \/ FindAllFilesPop
    \/ FindAllFilesEntry
    \/ GenerateFirstStage
    \/ \E i \in 1..MaxRules : MakeConsider(i)
    \/ \E i \in 1..MaxRules : MakeCommand(i)
    \/ RunMakefileReturn
    \/ MainScan
    \/ ScanDependency
    \/ MainResolve
    \/ ResolveDependency
    \/ ResolveReturn
    \/ MainGenerate
    \/ GenerateEntry
    \/ MainRunAssets
    \/ MainFindStale
    \/ FindStaleFilesReturn
    \/ DeleteStale
    \/ MainDone
    \/ MainExcept
    \/ Rerun

SpecPipe == InitPipe /\ [][NextPipe]_vars

\* the stage the script is in
StageOf ==
    CASE pc \in {"config", "sources"} -> 0
      [] pc = "make" /\ mk_stage = "html" -> 1
      [] pc = "html_built" -> 1
      [] pc = "scan" -> 2
      [] pc \in {"resolve", "resolved"} -> 3
      [] pc = "generate" -> 4
      [] pc = "make" /\ mk_stage = "asset" -> 4
      [] pc = "assets_built" -> 4
      [] pc \in {"stale_enum", "delete"} -> 5
      [] OTHER -> 6

Failures == {"config_error", "make_error", "unresolved", "remove_error"}

\* C3: the stages run in the order HTML build, scan, resolution, asset
\* build, reconciliation, and the run stops at the first stage that fails:
\* the scan and every later stage have the HTML build completed without
\* error before them, an unresolved dependency ends the run with no action of
\* the asset build done, and nothing is deleted unless both builds completed
\* without error.
StagesInOrder ==
    /\ [][pc' = "config" \/ StageOf' >= StageOf]_vars
    /\ [](StageOf \in 2..5 => "html_ok" \in hist)
    /\ [](StageOf = 5 \/ deleted # <<>> => {"html_ok", "asset_ok"} \subseteq hist)
    /\ []("unresolved" \in hist => "asset_action" \notin hist /\ StageOf = 6)
    /\ [](hist \cap Failures # {} => StageOf = 6)
    /\ [](mk_failed /\ pc # "make" => StageOf = 6)

\* a run that built the page and ended on a dependency no root resolves
StagesWitness ==
    /\ pc = "exit"
    /\ "unresolved" \in hist
    /\ "html_action" \in hist
    /\ res_error = MissingName

\* C4: a run in which a stage failed has logged the failure and ended with
\* a status that is not zero.
FailureExitsNonZero ==
    pc = "exit" /\ hist \cap Failures # {} => logged = "exception" /\ exit_status # 0

\* the part of C4 the script does: the failure is logged
FailureLogged == pc = "exit" /\ hist \cap Failures # {} => logged = "exception"

\* C2: a run after a run that went through all the stages leaves the output
\* directory as that run left it, and its deletion loop deletes nothing.
SecondRunIdempotent ==
    pc = "exit" /\ run > 1 /\ snapshot.done =>
        OutputTree(fs) = snapshot.tree /\ deleted = <<>>

\* the same for output directories without symbolic links
NoLinks == \A n \in DOMAIN fs : fs[n].k # "link"
SecondRunIdempotentNoLinks == NoLinks => SecondRunIdempotent

\* a second run has ended after a first run that built the page and the
\* media and deleted stale entries
SecondRunWitness ==
    /\ pc = "exit" /\ run = 2 /\ snapshot.done
    /\ "done" \in hist
    /\ snapshot.deleted # <<>>
    /\ Len(dependency_targets) = 2

====
